---------------------------- MODULE Spec2Model ----------------------------
(***************************************************************************)
(* A model of click-completion: the tokenizer (split_args), the quoting    *)
(* helpers (single_quote, double_quote), the context resolver              *)
(* (resolve_ctx), the candidate generator (get_choices, in its two         *)
(* versions: click_completion/__init__.py and click_completion/core.py),   *)
(* the shell emitters (do_*_complete) and the entry point                  *)
(* (_shellcomplete).                                                       *)
(*                                                                         *)
(* Strings are TLA+ strings; a character is a string of length 1.  A call  *)
(* that may raise returns a record [raised |-> <exception name or "">,     *)
(* value |-> <the returned value>].                                        *)
(***************************************************************************)
EXTENDS Integers, Sequences, FiniteSets, TLC

VARIABLES
    complete_options,   \* completion_configuration.complete_options of __init__.py
    core_configuration, \* core.py's own completion_configuration object
    pkg_startswith,     \* the function the package attribute click_completion.startswith names
    initialized,        \* the module global _initialized
    hooks,              \* how many times init() installed the click hooks
    call,               \* the operation in progress or last run, with its inputs
    ret,                \* what that operation returned (or raised)
    stdout,             \* what the process has echoed so far
    files,              \* the file system: path -> content ("": no such file)
    pc                  \* where the process is: "main", "quoted", "done", "returned",
                        \* "exited", "failed" or "command"

vars == <<complete_options, core_configuration, pkg_startswith, initialized, hooks, call, ret, stdout, files, pc>>

-----------------------------------------------------------------------------
(* Bounds of the model.                                                    *)

\* the longest line handed to split_args, in characters
MaxLine == 4
\* the longest text handed to single_quote, in characters
MaxText == 4
\* the most arguments handed to get_choices
MaxArgs == 2
\* the longest COMMANDLINE of an emitter called on its own, in words after the program name
MaxWords == 3
\* the longest COMMANDLINE or COMP_WORDS under _shellcomplete, in words after the program name
MaxMainWords == 2

\* the pieces of a command line handed to the powershell emitter
MaxQuoteWords == 4

-----------------------------------------------------------------------------
(* Characters and strings.                                                 *)

Ch(s, i) == SubSeq(s, i, i)

Ok(v) == [raised |-> "", value |-> v]

Raise(e) == [raised |-> e, value |-> <<>>]

RECURSIVE Join(_)
Join(ps) == IF ps = <<>> THEN "" ELSE Head(ps) \o Join(Tail(ps))

\* str.startswith
StrStartsWith(string, prefix) ==
    /\ Len(prefix) <= Len(string)
    /\ SubSeq(string, 1, Len(prefix)) = prefix

\* str.endswith
StrEndsWith(string, suffix) ==
    /\ Len(suffix) <= Len(string)
    /\ SubSeq(string, Len(string) - Len(suffix) + 1, Len(string)) = suffix

\* str.replace(old, new) for a one-character old
RECURSIVE StrReplace(_, _, _)
StrReplace(s, old, new) ==
    IF s = "" THEN ""
    ELSE (IF Ch(s, 1) = old THEN new ELSE Ch(s, 1))
         \o StrReplace(SubSeq(s, 2, Len(s)), old, new)

Letters == {"a", "b", "c", "d", "e", "f", "g", "h", "i", "j", "k", "l", "m",
            "n", "o", "p", "q", "r", "s", "t", "u", "v", "w", "x", "y", "z",
            "A", "B", "C", "D", "E", "F", "G", "H", "I", "J", "K", "L", "M",
            "N", "O", "P", "Q", "R", "S", "T", "U", "V", "W", "X", "Y", "Z"}

Digits == {"0", "1", "2", "3", "4", "5", "6", "7", "8", "9"}

\* str.isalnum on one character
IsAlnum(c) == c \in Letters \cup Digits

-----------------------------------------------------------------------------
(* shlex.shlex(line, posix=True) with whitespace_split = True and          *)
(* commenters = '', as split_args sets it up, read to the end of the line. *)

shlex_whitespace == {" ", "\t", "\r", "\n"}

shlex_quotes == {"'", "\""}

shlex_escape == {"\\"}

shlex_escapedquotes == {"\""}

(* The loop "while True: res.append(next(lex))": i is the next character   *)
(* to read, state/esc/tok/quoted are the lexer's state, escapedstate,      *)
(* token and quoted, res the tokens got so far.  It ends with the tokens,  *)
(* the lexer's token attribute and the ValueError raised, if any.          *)
RECURSIVE shlex_run(_, _, _, _, _, _, _)
shlex_run(line, i, state, esc, tok, quoted, res) ==
    LET eof == i > Len(line)
        c   == IF eof THEN "" ELSE Ch(line, i)
        \* read_token's break: the token is emitted, or None ends the iteration
        Emit(nextstate) ==
            IF tok = "" /\ ~quoted
            THEN [res |-> res, token |-> "", error |-> ""]
            ELSE IF nextstate = "None"
                 THEN [res |-> Append(res, tok), token |-> "", error |-> ""]
                 ELSE shlex_run(line, i + 1, nextstate, " ", "", FALSE, Append(res, tok))
    IN
    IF state = " " THEN
        IF eof THEN Emit("None")
        ELSE IF c \in shlex_whitespace THEN
            IF tok # "" \/ quoted THEN Emit(" ")
            ELSE shlex_run(line, i + 1, " ", esc, tok, quoted, res)
        ELSE IF c \in shlex_escape THEN
            shlex_run(line, i + 1, c, "a", tok, quoted, res)
        ELSE IF c \in shlex_quotes THEN
            shlex_run(line, i + 1, c, esc, tok, quoted, res)
        ELSE \* a word character, or any other one under whitespace_split
            shlex_run(line, i + 1, "a", esc, c, quoted, res)
    ELSE IF state \in shlex_quotes THEN
        IF eof THEN [res |-> res, token |-> tok, error |-> "No closing quotation"]
        ELSE IF c = state THEN
            shlex_run(line, i + 1, "a", esc, tok, TRUE, res)
        ELSE IF c \in shlex_escape /\ state \in shlex_escapedquotes THEN
            shlex_run(line, i + 1, c, state, tok, TRUE, res)
        ELSE
            shlex_run(line, i + 1, state, esc, tok \o c, TRUE, res)
    ELSE IF state \in shlex_escape THEN
        IF eof THEN [res |-> res, token |-> tok, error |-> "No escaped character"]
        ELSE
            shlex_run(line, i + 1, esc, esc,
                      (IF esc \in shlex_quotes /\ c # state /\ c # esc
                       THEN tok \o state ELSE tok) \o c,
                      quoted, res)
    ELSE \* state = "a"
        IF eof THEN Emit("None")
        ELSE IF c \in shlex_whitespace THEN
            IF tok # "" \/ quoted THEN Emit(" ")
            ELSE shlex_run(line, i + 1, " ", esc, tok, quoted, res)
        ELSE IF c \in shlex_quotes THEN
            shlex_run(line, i + 1, c, esc, tok, quoted, res)
        ELSE IF c \in shlex_escape THEN
            shlex_run(line, i + 1, c, "a", tok, quoted, res)
        ELSE
            shlex_run(line, i + 1, "a", esc, tok \o c, quoted, res)

shlex_iter(line) == shlex_run(line, 1, " ", " ", "", FALSE, <<>>)

\* list(lex) raising the lexer's ValueError
strict_tokens(lex) == IF lex.error # "" THEN Raise("ValueError") ELSE Ok(lex.res)

\* shlex.split(s): the tokens, or ValueError
shlex_split(s) == strict_tokens(shlex_iter(s))

\* "if lex.token: res.append(lex.token)"
with_pending_token(lex) == IF lex.token # "" THEN Append(lex.res, lex.token) ELSE lex.res

\* the body of split_args with the "except ValueError: pass" clause left out
lenient_tokens_uncaught(lex) ==
    IF lex.error # "" THEN Raise("ValueError") ELSE Ok(with_pending_token(lex))

\* the body of split_args: the ValueError is swallowed
lenient_tokens(lex) == Ok(with_pending_token(lex))

split_args(line) == lenient_tokens(shlex_iter(line))

-----------------------------------------------------------------------------
(* Quoting of a candidate for PowerShell.                                  *)

\* the characters outside the class [^\w@%+=:,./-] of find_unsafe
SafeChars == Letters \cup Digits \cup {"_", "@", "%", "+", "=", ":", ",", ".", "/", "-"}

find_unsafe(s) == \E i \in 1..Len(s) : Ch(s, i) \notin SafeChars

\* single_quote wrapping the text in quotes without escaping the quotes in it
single_quote_noescape(s) ==
    IF s = "" THEN "''"
    ELSE IF ~find_unsafe(s) THEN s
    ELSE "'" \o s \o "'"

single_quote(s) ==
    IF s = "" THEN "''"
    ELSE IF ~find_unsafe(s) THEN s
    ELSE "'" \o StrReplace(s, "'", "'\"'\"'") \o "'"

double_quote(s) ==
    IF s = "" THEN "\"\""
    ELSE IF ~find_unsafe(s) THEN s
    ELSE "\"" \o StrReplace(s, "\"", "\"'\"'\"") \o "\""

-----------------------------------------------------------------------------
(* The command tree the calling program declares with click.  None is the  *)
(* empty sequence and a present optional value v is <<v>>: an option's     *)
(* help, a command's short help.                                           *)

None == <<>>

Some(v) == <<v>>

StringType == [kind |-> "StringType", choices |-> <<>>]

Choice(cs) == [kind |-> "Choice", choices |-> cs]

\* DocumentedChoice: choices is a sequence of <<value, help>>
DocumentedChoice(cs) == [kind |-> "DocumentedChoice", choices |-> cs]

\* a ParamType of the calling program whose complete returns plain strings
WordList(cs) == [kind |-> "WordList", choices |-> cs]

Option(name, opts, secondary_opts, is_flag, hidden, help, type) ==
    [kind |-> "Option", name |-> name, opts |-> opts, secondary_opts |-> secondary_opts,
     is_flag |-> is_flag, hidden |-> hidden, help |-> help, nargs |-> 1, type |-> type]

Argument(name, nargs, type) ==
    [kind |-> "Argument", name |-> name, opts |-> <<name>>, secondary_opts |-> <<>>,
     is_flag |-> FALSE, hidden |-> FALSE, help |-> None, nargs |-> nargs, type |-> type]

Command(params, short_help) ==
    [multi |-> FALSE, params |-> params, commands |-> <<>>, short_help |-> short_help]

Group(params, commands, short_help) ==
    [multi |-> TRUE, params |-> params, commands |-> commands, short_help |-> short_help]

(* "tool" is a single command: a flag --verbose/-v, a value-taking option  *)
(* --name and a choice argument {a, b, c}.  "main" is a group with a       *)
(* hidden option, a flag with a secondary spelling, two value-taking       *)
(* options and the subcommands "remote" (a group holding "add") and "run". *)
(* Its option --name has a help text of two lines and a value with a       *)
(* space and parentheses in it.                                            *)
CommandTable ==
    [tool |-> Command(<<Option("verbose", <<"--verbose">>, <<"-v">>, TRUE, FALSE,
                               Some("Be verbose"), StringType),
                        Option("name", <<"--name">>, <<>>, FALSE, FALSE,
                               Some("Your name"), StringType),
                        Argument("letter", 1, Choice(<<"a", "b", "c">>))>>,
                      None),
     main |-> Group(<<Option("secret", <<"--secret">>, <<"--no-secret">>, TRUE, TRUE,
                             Some("Internal"), StringType),
                      Option("verbose", <<"--verbose">>, <<"-v">>, TRUE, FALSE,
                             Some("Be verbose"), StringType),
                      Option("name", <<"--name", "-n">>, <<>>, FALSE, FALSE,
                             Some("Your\n name"), WordList(<<"al", "bo", "c (d)">>)),
                      Option("region", <<"--region", "-r">>, <<>>, FALSE, FALSE,
                             None, DocumentedChoice(<<<<"a", Some("Asia")>>, <<"b", None>>>>))>>,
                    <<"remote", "run">>, None),
     remote |-> Group(<<Option("name", <<"--name">>, <<>>, FALSE, FALSE, None, StringType)>>,
                      <<"add">>, Some("Manage remotes")),
     add |-> Command(<<Argument("letter", 1, Choice(<<"a", "b", "c">>)),
                       Argument("rest", -1, Choice(<<"a", "b", "r">>))>>,
                     Some("Add a remote")),
     run |-> Command(<<Option("verbose", <<"--verbose">>, <<"-v">>, TRUE, FALSE,
                              Some("Be verbose"), StringType),
                       Argument("letter", 1, Choice(<<"a", "b", "c">>))>>,
                     Some("Run it"))]

\* the commands a calling program may pass as cli
RootCommands == {"tool", "main"}

SeqToSet(s) == {s[i] : i \in 1..Len(s)}

\* MultiCommand.get_command(ctx, name): the child, or None
get_command(cmd, name) ==
    IF name \in SeqToSet(CommandTable[cmd].commands) THEN Some(name) ELSE None

\* MultiCommand.list_commands(ctx)
list_commands(cmd) == CommandTable[cmd].commands

\* Command.get_help_option(ctx): the --help flag click adds to every command
HelpOption ==
    Option("help", <<"--help">>, <<>>, TRUE, FALSE, Some("Show this message and exit."), StringType)

\* Command.get_params(ctx): the declared parameters, then the help option
get_params(cmd) == Append(CommandTable[cmd].params, HelpOption)

SelectParams(cmd, kind) == SelectSeq(get_params(cmd), LAMBDA p : p.kind = kind)

-----------------------------------------------------------------------------
(* click's lenient parse, Command.make_context(info_name, args,            *)
(* resilient_parsing=True): what resolve_ctx and get_choices read of it,   *)
(* the command, the leftover arguments and the values bound to the         *)
(* positional arguments.  A token holds no "=" and no cluster of short     *)
(* options; a variadic argument is declared last.                          *)

IsNone(x) == Len(x) = 0

NoValue == [t |-> "None"]

IsOptionLike(arg) == Len(arg) > 1 /\ Ch(arg, 1) = "-"

Spellings(param) == SeqToSet(param.opts \o param.secondary_opts)

FirstOrNone(seq) == IF seq = <<>> THEN None ELSE Some(seq[1])

LastOrNone(seq) == IF seq = <<>> THEN None ELSE Some(seq[Len(seq)])

\* the option of cmd that arg spells, or None
FindOption(cmd, arg) ==
    FirstOrNone(SelectSeq(SelectParams(cmd, "Option"), LAMBDA p : arg \in Spellings(p)))

(* OptionParser._process_args_for_options: a UsageError (an unknown option,*)
(* an option without its value) ends the parse, and resilient parsing      *)
(* swallows it.                                                            *)
RECURSIVE process_args_for_options(_, _, _)
RECURSIVE process_opts(_, _, _, _)
\* OptionParser._process_opts: o is the option the token spells, or None
process_opts(cmd, largs, rest, o) ==
    IF IsNone(o) THEN [largs |-> largs, rargs |-> rest, aborted |-> TRUE]
    ELSE IF o[1].is_flag THEN process_args_for_options(cmd, largs, rest)
    ELSE IF rest = <<>> THEN [largs |-> largs, rargs |-> rest, aborted |-> TRUE]
    ELSE process_args_for_options(cmd, largs, Tail(rest))

process_args_for_options(cmd, largs, rargs) ==
    IF rargs = <<>> THEN [largs |-> largs, rargs |-> <<>>, aborted |-> FALSE]
    ELSE IF Head(rargs) = "--" THEN [largs |-> largs, rargs |-> Tail(rargs), aborted |-> FALSE]
    ELSE IF IsOptionLike(Head(rargs))
         THEN process_opts(cmd, largs, Tail(rargs), FindOption(cmd, Head(rargs)))
    ELSE IF ~CommandTable[cmd].multi
         THEN process_args_for_options(cmd, Append(largs, Head(rargs)), Tail(rargs))
    ELSE [largs |-> largs, rargs |-> rargs, aborted |-> FALSE]

\* ParamType.convert succeeds
Converts(type, v) ==
    CASE type.kind = "Choice" -> v \in SeqToSet(type.choices)
      [] type.kind = "DocumentedChoice" -> v \in {type.choices[i][1] : i \in 1..Len(type.choices)}
      [] OTHER -> TRUE

(* Parameter.handle_parse_result under resilient parsing: a missing or     *)
(* invalid value is None.  raw is None or <<the tokens unpacked>>.         *)
ArgumentValue(param, raw) ==
    IF IsNone(raw) THEN NoValue
    ELSE IF \E i \in 1..Len(raw[1]) : ~Converts(param.type, raw[1][i]) THEN NoValue
    ELSE IF param.nargs = -1 THEN [t |-> "tuple", v |-> raw[1]]
    ELSE [t |-> "str", v |-> raw[1][1]]

\* _unpack_args: the tokens each positional argument gets, and the rest
RECURSIVE unpack_args(_, _, _)
unpack_args(args, arguments, acc) ==
    IF arguments = <<>> THEN [raw |-> acc, rest |-> args]
    ELSE IF Head(arguments).nargs = -1
         THEN unpack_args(<<>>, Tail(arguments), Append(acc, Some(args)))
    ELSE IF args = <<>>
         THEN unpack_args(<<>>, Tail(arguments), Append(acc, None))
    ELSE unpack_args(Tail(args), Tail(arguments), Append(acc, Some(<<Head(args)>>)))

(* OptionParser._process_args_for_args, skipped when the options' parse was *)
(* cut short: parse_args then returns state.largs as the leftover.         *)
process_args_for_args(st, arguments) ==
    IF st.aborted
    THEN [raw |-> [i \in 1..Len(arguments) |-> None], rest |-> st.largs]
    ELSE unpack_args(st.largs \o st.rargs, arguments, <<>>)

(* Command.parse_args and MultiCommand.parse_args: the values bound, and   *)
(* the leftover split into protected_args and args for a MultiCommand.     *)
parse_args(cmd, arguments, un) ==
    [command |-> cmd,
     params |-> [i \in 1..Len(arguments) |-> ArgumentValue(arguments[i], un.raw[i])],
     protected_args |-> IF CommandTable[cmd].multi /\ un.rest # <<>>
                        THEN <<Head(un.rest)>> ELSE <<>>,
     args |-> IF CommandTable[cmd].multi /\ un.rest # <<>> THEN Tail(un.rest) ELSE un.rest]

bind_arguments(cmd, arguments, st) ==
    parse_args(cmd, arguments, process_args_for_args(st, arguments))

make_context(cmd, args) ==
    bind_arguments(cmd, SelectParams(cmd, "Argument"), process_args_for_options(cmd, <<>>, args))

\* ctx.params.get(param.name) for the i-th positional argument of the command
ParamValue(ctx, i) == ctx.params[i]

-----------------------------------------------------------------------------
(* The context resolver.                                                   *)

\* the descent handing the child all of a, its own name included
enter_with_name(a, cmd) == make_context(cmd, a)

\* cmd.make_context(a[0], a[1:], parent=ctx, resilient_parsing=True)
enter(a, cmd) == make_context(cmd, Tail(a))

RECURSIVE resolve_ctx_from(_)
\* one turn of the loop: cmd is what get_command returned for a[0]
descend(a, cmd) ==
    IF IsNone(cmd) THEN None ELSE resolve_ctx_from(enter(a, cmd[1]))

\* the while loop of resolve_ctx: None, or the context of the active command
resolve_ctx_from(ctx) ==
    IF (ctx.args \o ctx.protected_args) # <<>> /\ CommandTable[ctx.command].multi
    THEN descend(ctx.protected_args \o ctx.args,
                 get_command(ctx.command, (ctx.protected_args \o ctx.args)[1]))
    ELSE Some(ctx)

resolve_ctx(cli, prog_name, args) == resolve_ctx_from(make_context(cli, args))

-----------------------------------------------------------------------------
(* The match predicates and the completions a parameter type supplies.     *)

LowerCase == "abcdefghijklmnopqrstuvwxyz"

UpperCase == "ABCDEFGHIJKLMNOPQRSTUVWXYZ"

Translate(c, from, to) ==
    IF \E i \in 1..Len(from) : Ch(from, i) = c
    THEN Ch(to, CHOOSE i \in 1..Len(from) : Ch(from, i) = c)
    ELSE c

Lower(c) == Translate(c, UpperCase, LowerCase)

Upper(c) == Translate(c, LowerCase, UpperCase)

RECURSIVE StrUpper(_)
StrUpper(s) == IF s = "" THEN "" ELSE Upper(Ch(s, 1)) \o StrUpper(SubSeq(s, 2, Len(s)))

RECURSIVE StrLower(_)
StrLower(s) == IF s = "" THEN "" ELSE Lower(Ch(s, 1)) \o StrLower(SubSeq(s, 2, Len(s)))

(* A predicate by name: "init.startswith" is startswith of __init__.py,    *)
(* "core.startswith" is startswith of core.py, "icase" is a                *)
(* case-insensitive version the calling program supplies.                  *)
Apply(fn, string, incomplete) ==
    IF fn = "icase" THEN StrStartsWith(StrLower(string), StrLower(incomplete))
    ELSE StrStartsWith(string, incomplete)

\* startswith of __init__.py, looked up in the module's globals at each call
startswith(string, incomplete) == Apply(pkg_startswith, string, incomplete)

\* match of core.py
match(string, incomplete) ==
    LET fn == IF pkg_startswith # "core.startswith"
              THEN pkg_startswith
              ELSE core_configuration.match_incomplete
    IN Apply(fn, string, incomplete)

\* a result of complete(): a (text, help) tuple, or a bare string
Pair(text, help) == [tuple |-> TRUE, text |-> text, help |-> help]

Bare(text) == [tuple |-> FALSE, text |-> text, help |-> None]

\* param_type_complete
param_type_complete(type, incomplete) == <<>>

\* [(c, None) for c in ...]
NoHelpPairs(cs) == [i \in 1..Len(cs) |-> Pair(cs[i], None)]

\* choice_complete
choice_complete(type, incomplete) ==
    NoHelpPairs(SelectSeq(type.choices, LAMBDA c : StrStartsWith(c, incomplete)))

\* [(c, v) for c, v in ...]
HelpPairs(cs) == [i \in 1..Len(cs) |-> Pair(cs[i][1], cs[i][2])]

\* DocumentedChoice.complete
documented_choice_complete(type, incomplete) ==
    HelpPairs(SelectSeq(type.choices, LAMBDA c : startswith(c[1], incomplete)))

BareWords(cs) == [i \in 1..Len(cs) |-> Bare(cs[i])]

\* complete of a type of the calling program that returns bare strings
word_list_complete(type, incomplete) ==
    BareWords(SelectSeq(type.choices, LAMBDA c : StrStartsWith(c, incomplete)))

\* optctx.type.complete(ctx, incomplete)
type_complete(type, incomplete) ==
    CASE type.kind = "Choice" -> choice_complete(type, incomplete)
      [] type.kind = "DocumentedChoice" -> documented_choice_complete(type, incomplete)
      [] type.kind = "WordList" -> word_list_complete(type, incomplete)
      [] OTHER -> param_type_complete(type, incomplete)

\* multicommand_get_command_short_help
get_command_short_help(cmd, name) == CommandTable[get_command(cmd, name)[1]].short_help

-----------------------------------------------------------------------------
(* The candidate generator.  A candidate is <<text, help>>.                *)

RECURSIVE Flatten(_)
Flatten(ss) == IF ss = <<>> THEN <<>> ELSE Head(ss) \o Flatten(Tail(ss))

\* the options loop: the last value-taking option that args[-1] spells, or None
option_target(options, last) ==
    LastOrNone(SelectSeq(options, LAMBDA p : ~p.is_flag /\ last \in Spellings(p)))

\* ctx.params.get(param.name) in (None, ()) or param.nargs == -1
IsOpen(ctx, arguments, i) ==
    \/ ParamValue(ctx, i).t = "None"
    \/ (ParamValue(ctx, i).t = "tuple" /\ ParamValue(ctx, i).v = <<>>)
    \/ arguments[i].nargs = -1

\* the arguments loop without its break: the last argument still open, or None
argument_target_unbroken(ctx, arguments, incomplete) ==
    IF \E i \in 1..Len(arguments) : ~StrStartsWith(incomplete, "-") /\ IsOpen(ctx, arguments, i)
    THEN Some(arguments[CHOOSE i \in 1..Len(arguments) :
                           /\ IsOpen(ctx, arguments, i)
                           /\ \A j \in (i + 1)..Len(arguments) : ~IsOpen(ctx, arguments, j)])
    ELSE None

\* the arguments loop: the first argument still open, or None
argument_target(ctx, arguments, incomplete) ==
    IF \E i \in 1..Len(arguments) : ~StrStartsWith(incomplete, "-") /\ IsOpen(ctx, arguments, i)
    THEN Some(arguments[CHOOSE i \in 1..Len(arguments) :
                           /\ IsOpen(ctx, arguments, i)
                           /\ \A j \in 1..(i - 1) : ~IsOpen(ctx, arguments, j)])
    ELSE None

\* "if optctx is None: for param in arguments: ..."
or_argument_target(byoption, ctx, incomplete) ==
    IF ~IsNone(byoption) THEN byoption
    ELSE argument_target(ctx, SelectParams(ctx.command, "Argument"), incomplete)

\* the parameter get_choices completes the value of (optctx), or None
find_optctx(ctx, args, incomplete) ==
    IF args = <<>> THEN None
    ELSE or_argument_target(option_target(SelectParams(ctx.command, "Option"), args[Len(args)]),
                            ctx, incomplete)

\* [c if isinstance(c, tuple) else (c, None) for c in ...]
as_tuples(cs) ==
    [i \in 1..Len(cs) |-> IF cs[i].tuple THEN <<cs[i].text, cs[i].help>> ELSE <<cs[i].text, None>>]

\* choices += [... for c in optctx.type.complete(ctx, incomplete)]
value_choices(optctx, incomplete) == as_tuples(type_complete(optctx.type, incomplete))

\* the test of get_choices' option loop always passing
offer_options_always(flag, incomplete) == TRUE

\* completion_configuration.complete_options or incomplete and not incomplete[:1].isalnum()
offer_options(flag, incomplete) ==
    flag \/ (incomplete # "" /\ ~IsAlnum(Ch(incomplete, 1)))

\* choices.append((opt, help)) for each opt of opts
with_help(opts, help) == [i \in 1..Len(opts) |-> <<opts[i], help>>]

\* core.py's loop body with the secondary spellings given the option's help
core_param_choices_secondary_help(param, incomplete) ==
    IF offer_options(core_configuration.complete_options, incomplete) /\ param.kind = "Option"
    THEN IF param.hidden THEN <<>>
         ELSE with_help(SelectSeq(param.opts, LAMBDA o : match(o, incomplete)), param.help)
              \o with_help(SelectSeq(param.secondary_opts, LAMBDA o : match(o, incomplete)),
                           param.help)
    ELSE <<>>

\* the candidates of one parameter in core.py: its primary, then its secondary spellings
core_param_choices(param, incomplete) ==
    IF offer_options(core_configuration.complete_options, incomplete) /\ param.kind = "Option"
    THEN IF param.hidden THEN <<>>
         ELSE with_help(SelectSeq(param.opts, LAMBDA o : match(o, incomplete)), param.help)
              \o with_help(SelectSeq(param.secondary_opts, LAMBDA o : match(o, incomplete)), None)
    ELSE <<>>

\* choices.append((name, ctx.command.get_command_short_help(ctx, name)))
with_short_help(cmd, names) ==
    [i \in 1..Len(names) |-> <<names[i], get_command_short_help(cmd, names[i])>>]

\* the candidates of the subcommands in core.py
core_command_choices(cmd, incomplete) ==
    IF CommandTable[cmd].multi
    THEN with_short_help(cmd, SelectSeq(list_commands(cmd), LAMBDA n : match(n, incomplete)))
    ELSE <<>>

\* "for param in ctx.command.get_params(ctx): ..." of core.py
core_option_choices(params, incomplete) ==
    Flatten([i \in 1..Len(params) |-> core_param_choices(params[i], incomplete)])

\* the else branch of core.py's get_choices with the subcommands put first
core_enumerate_commands_first(ctx, incomplete) ==
    core_command_choices(ctx.command, incomplete)
    \o core_option_choices(get_params(ctx.command), incomplete)

\* the else branch of core.py's get_choices: options, then subcommands
core_enumerate(ctx, incomplete) ==
    core_option_choices(get_params(ctx.command), incomplete)
    \o core_command_choices(ctx.command, incomplete)

\* "if optctx: ... else: ..." of core.py with the value branch adding the enumeration
core_choose_both(ctx, optctx, incomplete) ==
    IF ~IsNone(optctx) THEN value_choices(optctx[1], incomplete) \o core_enumerate(ctx, incomplete)
    ELSE core_enumerate(ctx, incomplete)

\* "if optctx: ... else: ..." of core.py
core_choose(ctx, optctx, incomplete) ==
    IF ~IsNone(optctx) THEN value_choices(optctx[1], incomplete)
    ELSE core_enumerate(ctx, incomplete)

\* core.py's get_choices from the resolved context on, without "if ctx is None: return"
core_choices_of_unguarded(r, args, incomplete) ==
    IF IsNone(r) THEN Raise("AttributeError")
    ELSE Ok(core_choose(r[1], find_optctx(r[1], args, incomplete), incomplete))

\* core.py's get_choices from the resolved context r on
core_choices_of(r, args, incomplete) ==
    IF IsNone(r) THEN Ok(<<>>)
    ELSE Ok(core_choose(r[1], find_optctx(r[1], args, incomplete), incomplete))

\* get_choices of core.py, run to the end of the generator
core_get_choices(cli, prog_name, args, incomplete) ==
    core_choices_of(resolve_ctx(cli, prog_name, args), args, incomplete)

\* the candidates of one parameter in __init__.py (no test of hidden)
init_param_choices(param, incomplete) ==
    IF offer_options(complete_options, incomplete) /\ param.kind = "Option"
    THEN with_help(SelectSeq(param.opts, LAMBDA o : startswith(o, incomplete)), param.help)
         \o with_help(SelectSeq(param.secondary_opts, LAMBDA o : startswith(o, incomplete)), None)
    ELSE <<>>

\* the candidates of the subcommands in __init__.py
init_command_choices(cmd, incomplete) ==
    IF CommandTable[cmd].multi
    THEN with_short_help(cmd, SelectSeq(list_commands(cmd), LAMBDA n : startswith(n, incomplete)))
    ELSE <<>>

\* "for param in ctx.command.get_params(ctx): ..." of __init__.py
init_option_choices(params, incomplete) ==
    Flatten([i \in 1..Len(params) |-> init_param_choices(params[i], incomplete)])

\* the else branch of __init__.py's get_choices
init_enumerate(ctx, incomplete) ==
    init_option_choices(get_params(ctx.command), incomplete)
    \o init_command_choices(ctx.command, incomplete)

\* "if optctx: ... else: ..." of __init__.py
init_choose(ctx, optctx, incomplete) ==
    IF ~IsNone(optctx) THEN value_choices(optctx[1], incomplete)
    ELSE init_enumerate(ctx, incomplete)

\* __init__.py's get_choices from the resolved context r on
init_choices_of(r, args, incomplete) ==
    IF IsNone(r) THEN Ok(<<>>)
    ELSE Ok(init_choose(r[1], find_optctx(r[1], args, incomplete), incomplete))

\* get_choices of __init__.py, run to the end of the generator
init_get_choices(cli, prog_name, args, incomplete) ==
    init_choices_of(resolve_ctx(cli, prog_name, args), args, incomplete)

-----------------------------------------------------------------------------
(* The shell emitters.  An emitter reads the environment (an unset         *)
(* variable is None, a set one <<its value>>) and returns what it echoed,  *)
(* out, with the args, incomplete and choices it worked on.                *)

\* click.echo(text): the text and a newline
echo(text) == text \o "\n"

Emitted(args, incomplete, choices, out) ==
    [raised |-> "", args |-> args, incomplete |-> incomplete, choices |-> choices, out |-> out]

Failed(e) == [raised |-> e, args |-> <<>>, incomplete |-> "", choices |-> <<>>, out |-> <<>>]

\* sep.join(parts)
RECURSIVE StrJoin(_, _)
StrJoin(sep, parts) ==
    IF parts = <<>> THEN ""
    ELSE IF Len(parts) = 1 THEN parts[1]
    ELSE parts[1] \o sep \o StrJoin(sep, Tail(parts))

\* s contains sub
Contains(s, sub) == \E i \in 1..(Len(s) - Len(sub) + 1) : SubSeq(s, i, i + Len(sub) - 1) = sub

\* s.rfind(sub): the 0-based offset of the last occurrence, or -1
rfind(s, sub) ==
    LET at == {i \in 0..(Len(s) - Len(sub)) : SubSeq(s, i + 1, i + Len(sub)) = sub}
    IN IF at = {} THEN -1 ELSE CHOOSE i \in at : \A j \in at : j <= i

\* re.sub(class, r'\\\1', opt): a backslash before each character of the class
RECURSIVE backslash_escape(_, _)
backslash_escape(s, class) ==
    IF s = "" THEN ""
    ELSE (IF Ch(s, 1) \in class THEN "\\" \o Ch(s, 1) ELSE Ch(s, 1))
         \o backslash_escape(SubSeq(s, 2, Len(s)), class)

\* re.sub(r'\s', ' ', help): each whitespace character becomes one space
RECURSIVE blank_whitespace(_)
blank_whitespace(s) ==
    IF s = "" THEN ""
    ELSE (IF Ch(s, 1) \in {" ", "\t", "\n", "\r"} THEN " " ELSE Ch(s, 1))
         \o blank_whitespace(SubSeq(s, 2, Len(s)))

\* "if help:" of a candidate's help
Truthy(help) == ~IsNone(help) /\ help[1] # ""

\* "if args and not commandline.endswith(' '): incomplete = args[-1]; args = args[:-1]"
split_incomplete(args, commandline) ==
    IF args # <<>> /\ ~StrEndsWith(commandline, " ")
    THEN [args |-> SubSeq(args, 1, Len(args) - 1), incomplete |-> args[Len(args)], last |-> TRUE]
    ELSE [args |-> args, incomplete |-> "", last |-> FALSE]

\* words[1:]
AllButFirst(words) == IF words = <<>> THEN <<>> ELSE Tail(words)

(* args, incomplete as the fish, zsh and powershell emitters take them     *)
(* from COMMANDLINE.                                                       *)
commandline_args(commandline) ==
    split_incomplete(AllButFirst(split_args(commandline).value), commandline)

\* args = cwords[1:cword]; incomplete = cwords[cword], '' on IndexError
cword_args(quoted, cwords, cword) ==
    [quoted |-> quoted,
     args |-> SubSeq(cwords, 2, IF cword < Len(cwords) THEN cword ELSE Len(cwords)),
     incomplete |-> IF cword + 1 <= Len(cwords) THEN cwords[cword + 1] ELSE "",
     last |-> cword + 1 <= Len(cwords)]

\* the try/except ValueError around shlex.split(comp_words)
split_or_lenient(strict, comp_words, cword) ==
    IF strict.raised # "" THEN cword_args(TRUE, split_args(comp_words).value, cword)
    ELSE cword_args(FALSE, strict.value, cword)

(* args, incomplete as do_bash_complete takes them from COMP_WORDS and     *)
(* COMP_CWORD (cword >= 0).                                                *)
comp_words_args(comp_words, cword) == split_or_lenient(shlex_split(comp_words), comp_words, cword)

\* get_choices of the module the emitter is in: v is "core" or "init"
choices_for(v, cli, prog_name, a) ==
    IF v = "core" THEN core_get_choices(cli, prog_name, a.args, a.incomplete).value
    ELSE init_get_choices(cli, prog_name, a.args, a.incomplete).value

bash_class_core == {" ", "\t", "\n", "\r", "\\", "\"", "'", "(", ")"}

bash_class_init == {" ", "\t", "\n", "\r", "\\", "\"", "'"}

bash_class(v) == IF v = "core" THEN bash_class_core ELSE bash_class_init

\* the "if quoted: ... else: ..." of do_bash_complete taking the else branch always
bash_out_escaping_quoted(quoted, choices, class) ==
    <<StrJoin("\t", [i \in 1..Len(choices) |-> backslash_escape(choices[i][1], class)])>>

\* the "if quoted: ... else: ..." of do_bash_complete; echo(..., nl=False)
bash_out(quoted, choices, class) ==
    <<StrJoin("\t", [i \in 1..Len(choices) |->
                        IF quoted THEN choices[i][1]
                        ELSE backslash_escape(choices[i][1], class)])>>

bash_emit(v, a, cs) == Emitted(a.args, a.incomplete, cs, bash_out(a.quoted, cs, bash_class(v)))

bash_complete_from(v, cli, prog_name, a) == bash_emit(v, a, choices_for(v, cli, prog_name, a))

do_bash_complete(v, cli, prog_name, comp_words, comp_cword) ==
    IF IsNone(comp_words) \/ IsNone(comp_cword) THEN Failed("KeyError")
    ELSE bash_complete_from(v, cli, prog_name, comp_words_args(comp_words[1], comp_cword[1]))

\* do_bash_complete of core.py
core_do_bash_complete(cli, prog_name, comp_words, comp_cword) ==
    do_bash_complete("core", cli, prog_name, comp_words, comp_cword)

\* do_bash_complete of __init__.py
init_do_bash_complete(cli, prog_name, comp_words, comp_cword) ==
    do_bash_complete("init", cli, prog_name, comp_words, comp_cword)

\* the loop of do_fish_complete printing the help as it is
fish_out_raw_help(choices) ==
    [i \in 1..Len(choices) |->
        IF Truthy(choices[i][2])
        THEN echo(choices[i][1] \o "\t" \o choices[i][2][1])
        ELSE echo(choices[i][1])]

\* the loop of do_fish_complete: one echo for each candidate
fish_out(choices) ==
    [i \in 1..Len(choices) |->
        IF Truthy(choices[i][2])
        THEN echo(choices[i][1] \o "\t" \o blank_whitespace(choices[i][2][1]))
        ELSE echo(choices[i][1])]

fish_emit(a, cs) == Emitted(a.args, a.incomplete, cs, fish_out(cs))

fish_complete_from(v, cli, prog_name, a) == fish_emit(a, choices_for(v, cli, prog_name, a))

do_fish_complete(v, cli, prog_name, commandline) ==
    IF IsNone(commandline) THEN Failed("KeyError")
    ELSE fish_complete_from(v, cli, prog_name, commandline_args(commandline[1]))

\* do_fish_complete of core.py
core_do_fish_complete(cli, prog_name, commandline) ==
    do_fish_complete("core", cli, prog_name, commandline)

\* do_fish_complete of __init__.py
init_do_fish_complete(cli, prog_name, commandline) ==
    do_fish_complete("init", cli, prog_name, commandline)

\* a TLA+ string cannot hold a backquote: the form feed stands for it
Backquote == "\f"

\* escape of core.py's do_zsh_complete
core_zsh_escape(s) ==
    StrReplace(StrReplace(StrReplace(StrReplace(s, "\"", "\"\""), "'", "''"), "$", "\\$"),
               Backquote, "\\" \o Backquote)

\* escape of __init__.py's do_zsh_complete
init_zsh_escape(s) ==
    StrReplace(StrReplace(StrReplace(s, "\"", "\"\""), "'", "''"), "$", "\\$")

zsh_escape(v, s) == IF v = "core" THEN core_zsh_escape(s) ELSE init_zsh_escape(s)

\* one element of res in do_zsh_complete
zsh_item(v, choice) ==
    IF Truthy(choice[2])
    THEN "\"" \o zsh_escape(v, choice[1]) \o "\"\\:\"" \o zsh_escape(v, choice[2][1]) \o "\""
    ELSE "\"" \o zsh_escape(v, choice[1]) \o "\""

\* res of do_zsh_complete
zsh_res(v, choices) == [i \in 1..Len(choices) |-> zsh_item(v, choices[i])]

\* the "if res: ... else: ..." of do_zsh_complete with the test left out
zsh_out_always_arguments(res) ==
    <<echo("_arguments '*: :((" \o StrJoin("\n", res) \o "))'")>>

\* the "if res: ... else: ..." of do_zsh_complete
zsh_out(res) ==
    IF res # <<>>
    THEN <<echo("_arguments '*: :((" \o StrJoin("\n", res) \o "))'")>>
    ELSE <<echo("_files")>>

zsh_emit(v, a, cs) == Emitted(a.args, a.incomplete, cs, zsh_out(zsh_res(v, cs)))

zsh_complete_from(v, cli, prog_name, a) == zsh_emit(v, a, choices_for(v, cli, prog_name, a))

do_zsh_complete(v, cli, prog_name, commandline) ==
    IF IsNone(commandline) THEN Failed("KeyError")
    ELSE zsh_complete_from(v, cli, prog_name, commandline_args(commandline[1]))

\* do_zsh_complete of core.py
core_do_zsh_complete(cli, prog_name, commandline) ==
    do_zsh_complete("core", cli, prog_name, commandline)

\* do_zsh_complete of __init__.py
init_do_zsh_complete(cli, prog_name, commandline) ==
    do_zsh_complete("init", cli, prog_name, commandline)

\* "if quote_pos >= 0 and commandline[quote_pos] == '\"': quote = double_quote"
quote_at(commandline, quote_pos) ==
    IF quote_pos >= 0 /\ Ch(commandline, quote_pos + 1) = "\""
    THEN "double_quote" ELSE "single_quote"

\* quote_pos = commandline.rfind(incomplete) - 1, when there is an incomplete word
quote_for(commandline, a) ==
    IF a.last THEN quote_at(commandline, rfind(commandline, a.incomplete) - 1)
    ELSE "single_quote"

\* the quoting do_powershell_complete chooses: "double_quote" or "single_quote"
powershell_quote(commandline) == quote_for(commandline, commandline_args(commandline))

powershell_out(quote, choices) ==
    [i \in 1..Len(choices) |->
        echo(IF quote = "double_quote" THEN double_quote(choices[i][1])
             ELSE single_quote(choices[i][1]))]

powershell_emit(commandline, a, cs) ==
    Emitted(a.args, a.incomplete, cs, powershell_out(quote_for(commandline, a), cs))

powershell_complete_from(v, cli, prog_name, commandline, a) ==
    powershell_emit(commandline, a, choices_for(v, cli, prog_name, a))

do_powershell_complete(v, cli, prog_name, commandline) ==
    IF IsNone(commandline) THEN Failed("KeyError")
    ELSE powershell_complete_from(v, cli, prog_name, commandline[1],
                                  commandline_args(commandline[1]))

\* do_powershell_complete of core.py
core_do_powershell_complete(cli, prog_name, commandline) ==
    do_powershell_complete("core", cli, prog_name, commandline)

\* do_powershell_complete of __init__.py
init_do_powershell_complete(cli, prog_name, commandline) ==
    do_powershell_complete("init", cli, prog_name, commandline)

-----------------------------------------------------------------------------
(* get_code, get_auto_shell and install of __init__.py, and the entry      *)
(* point _shellcomplete.  The host is what they find outside the program:  *)
(* parent, the name of the parent process (None: psutil is not installed), *)
(* ohmyzsh, whether ~/.oh-my-zsh exists, and powershell, whether the       *)
(* powershell executable runs.                                             *)

SupportedShells == {"bash", "fish", "zsh", "powershell"}

\* the text a template renders to (the *.j2 files of the package)
render(shell, prog_name, complete_var) ==
    "<" \o shell \o ".j2 " \o prog_name \o " " \o complete_var \o ">"

\* get_auto_shell
get_auto_shell(host) ==
    IF IsNone(host.parent) THEN Raise("UsageError") ELSE Ok(host.parent[1])

\* '_%s_COMPLETE' % (prog_name.replace('-', '_')).upper()
complete_var_name(prog_name) == "_" \o StrUpper(StrReplace(prog_name, "-", "_")) \o "_COMPLETE"

\* get_code of __init__.py; shell is None or <<name>>
init_get_code(shell, prog_name, env_name, host) ==
    LET sh == IF IsNone(shell) \/ shell = Some("auto") THEN get_auto_shell(host) ELSE Ok(shell[1])
    IN IF sh.raised # "" THEN Raise(sh.raised)
       ELSE IF sh.value \notin SupportedShells THEN Raise("TemplateNotFound")
       ELSE Ok(render(sh.value, prog_name, env_name))

\* the path and mode install of __init__.py settles on for a shell
init_install_target(shell, prog_name, path, append, host) ==
    LET append1 == IF IsNone(append) /\ ~IsNone(path) THEN Some(TRUE) ELSE append
        mode    == IF IsNone(append1) THEN None ELSE Some(IF append1[1] THEN "a" ELSE "w")
        Target(stdpath, stdmode) ==
            Ok([path |-> IF IsNone(path) THEN stdpath ELSE path[1],
                mode |-> IF IsNone(mode) THEN stdmode ELSE mode[1]])
    IN CASE shell = "fish" -> Target("~/.config/fish/completions/" \o prog_name \o ".fish", "w")
         [] shell = "bash" -> Target("~/.bash_completion", "a")
         [] shell = "zsh" -> IF host.ohmyzsh
                             THEN Target("~/.oh-my-zsh/completions/_" \o prog_name, "w")
                             ELSE Target("~/.zshrc", "a")
         [] shell = "powershell" -> IF host.powershell THEN Target("~/profile.ps1", "a")
                                    ELSE Raise("CalledProcessError")
         [] OTHER -> Raise("ClickException")

\* open(path, mode); f.write(text): the file system afterwards
write_file(fs, path, mode, text) ==
    [p \in DOMAIN fs \cup {path} |->
        IF p = path THEN (IF mode = "a" /\ p \in DOMAIN fs THEN fs[p] ELSE "") \o text
        ELSE fs[p]]

(* install of __init__.py: what it returns or raises, the mode it opened   *)
(* the file with, and the file system afterwards                           *)
init_install(shell, prog_name, env_name, path, append, host, fs) ==
    LET sh == IF IsNone(shell) THEN get_auto_shell(host) ELSE Ok(shell[1])
    IN IF sh.raised # "" THEN [raised |-> sh.raised, value |-> <<>>, mode |-> "", files |-> fs]
       ELSE LET t == init_install_target(sh.value, prog_name, path, append, host)
            IN IF t.raised # "" THEN [raised |-> t.raised, value |-> <<>>, mode |-> "", files |-> fs]
               ELSE [raised |-> "", value |-> <<sh.value, t.value.path>>, mode |-> t.value.mode,
                     files |-> write_file(fs, t.value.path, t.value.mode,
                                  init_get_code(Some(sh.value), prog_name, env_name, host).value
                                  \o "\n")]

(* core.py takes a shell as a name (a string) or as a member of the Shell  *)
(* enumeration; an argument shell is None or <<one of these>>.             *)
ShellName(n) == [member |-> FALSE, name |-> n]

ShellMember(n) == [member |-> TRUE, name |-> n]

\* what get_auto_shell returns, as core.py receives it: a name
auto_shell_name(r) == IF r.raised # "" THEN Raise(r.raised) ELSE Ok(ShellName(r.value))

\* "if not isinstance(shell, Shell): shell = Shell[shell]", then the template rendered
core_render(sh, prog_name, env_name) ==
    IF sh.raised # "" THEN Raise(sh.raised)
    ELSE IF ~sh.value.member /\ sh.value.name \notin SupportedShells THEN Raise("KeyError")
    ELSE Ok(render(sh.value.name, prog_name, env_name))

\* get_code of core.py
core_get_code(shell, prog_name, env_name, host) ==
    core_render(IF IsNone(shell) \/ shell = Some(ShellName("auto"))
                THEN auto_shell_name(get_auto_shell(host)) ELSE Ok(shell[1]),
                prog_name, env_name)

\* "if append is None and path is not None: append = True", then mode from append
mode_of_append(path, append) ==
    IF IsNone(append) THEN (IF IsNone(path) THEN None ELSE Some("a"))
    ELSE Some(IF append[1] THEN "a" ELSE "w")

\* "path = path or <standard path>; mode = mode or <standard mode>"
path_or_standard(path, mode, stdpath, stdmode) ==
    Ok([path |-> IF IsNone(path) THEN stdpath ELSE path[1],
        mode |-> IF IsNone(mode) THEN stdmode ELSE mode[1]])

(* InstallConfiguration.__get_path_config: shell is the argument of        *)
(* __init__ as given, compared with the names 'fish', 'bash', 'zsh' and    *)
(* 'powershell'.                                                           *)
core_get_path_config(shell, prog_name, path, append, host) ==
    CASE shell = Some(ShellName("fish")) ->
            path_or_standard(path, mode_of_append(path, append),
                             "~/.config/fish/completions/" \o prog_name \o ".fish", "w")
      [] shell = Some(ShellName("bash")) ->
            path_or_standard(path, mode_of_append(path, append), "~/.bash_completion", "a")
      [] shell = Some(ShellName("zsh")) ->
            path_or_standard(path, mode_of_append(path, append), "~/.zshrc", "a")
      [] shell = Some(ShellName("powershell")) ->
            IF host.powershell
            THEN path_or_standard(path, mode_of_append(path, append), "~/profile.ps1", "a")
            ELSE Raise("CalledProcessError")
      [] OTHER -> Raise("ClickException")

\* "self.shell = shell or get_auto_shell()"
shell_or_auto(shell, host) ==
    IF IsNone(shell) \/ shell = Some(ShellName(""))
    THEN auto_shell_name(get_auto_shell(host)) ELSE Ok(shell[1])

\* "self.code = get_code(shell, prog_name, env_name, extra_env)"
configuration_with_code(sh, t, code) ==
    IF code.raised # "" THEN Raise(code.raised)
    ELSE Ok([shell |-> sh, path |-> t.path, mode |-> t.mode, code |-> code.value])

\* "self.path, self.mode = self.__get_path_config(shell, prog_name, path, append)"
configuration_with_path(sh, t, shell, prog_name, env_name, host) ==
    IF t.raised # "" THEN Raise(t.raised)
    ELSE configuration_with_code(sh, t.value, core_get_code(shell, prog_name, env_name, host))

\* InstallConfiguration.__init__ from self.shell on
configuration_with_shell(sh, shell, prog_name, env_name, path, append, host) ==
    IF sh.raised # "" THEN Raise(sh.raised)
    ELSE configuration_with_path(sh.value,
                                 core_get_path_config(shell, prog_name, path, append, host),
                                 shell, prog_name, env_name, host)

\* InstallConfiguration(shell, prog_name, env_name, path, append)
InstallConfiguration(shell, prog_name, env_name, path, append, host) ==
    configuration_with_shell(shell_or_auto(shell, host), shell, prog_name, env_name, path,
                             append, host)

\* install_from_config; a configuration that was not built leaves the files alone
install_from_config(install_config, fs) ==
    IF install_config.raised # ""
    THEN [raised |-> install_config.raised, value |-> <<>>, mode |-> "", files |-> fs]
    ELSE [raised |-> "",
          value |-> <<install_config.value.shell, install_config.value.path>>,
          mode |-> install_config.value.mode,
          files |-> write_file(fs, install_config.value.path, install_config.value.mode,
                               install_config.value.code \o "\n")]

\* install of core.py
core_install(shell, prog_name, env_name, path, append, host, fs) ==
    install_from_config(InstallConfiguration(shell, prog_name, env_name, path, append, host), fs)

\* what a handler of _shellcomplete did
Handled(handler, raised, out, fs) ==
    [handler |-> handler, raised |-> raised, out |-> out, files |-> fs]

\* the branch "echo(get_code(...))"
source_handler(shell, prog_name, complete_var, host, fs) ==
    LET code == init_get_code(shell, prog_name, complete_var, host)
    IN Handled("get_code", code.raised,
               IF code.raised = "" THEN <<echo(code.value)>> ELSE <<>>, fs)

\* the branch "shell, path = install(...); click.echo(...)"
install_handler(shell, prog_name, complete_var, host, fs) ==
    LET r == init_install(shell, prog_name, complete_var, None, None, host, fs)
    IN Handled("install", r.raised,
               IF r.raised = ""
               THEN <<echo(r.value[1] \o " completion installed in " \o r.value[2])>>
               ELSE <<>>,
               r.files)

complete_handler(handler, r, fs) == Handled(handler, r.raised, r.out, fs)

(* The if/elif chain of _shellcomplete for a non-empty complete_instr:     *)
(* the handler run and what it did; "" when no branch is taken.            *)
shellcomplete_dispatch(cli, prog_name, complete_var, complete_instr, env, host, fs) ==
    CASE complete_instr = "source" -> source_handler(None, prog_name, complete_var, host, fs)
      [] complete_instr = "source-bash" -> source_handler(Some("bash"), prog_name, complete_var, host, fs)
      [] complete_instr = "source-fish" -> source_handler(Some("fish"), prog_name, complete_var, host, fs)
      [] complete_instr = "source-powershell" ->
            source_handler(Some("powershell"), prog_name, complete_var, host, fs)
      [] complete_instr = "source-zsh" -> source_handler(Some("zsh"), prog_name, complete_var, host, fs)
      [] complete_instr \in {"complete", "complete-bash"} ->
            complete_handler("do_bash_complete",
                init_do_bash_complete(cli, prog_name, env.COMP_WORDS, env.COMP_CWORD), fs)
      [] complete_instr = "complete-fish" ->
            complete_handler("do_fish_complete",
                init_do_fish_complete(cli, prog_name, env.COMMANDLINE), fs)
      [] complete_instr = "complete-powershell" ->
            complete_handler("do_powershell_complete",
                init_do_powershell_complete(cli, prog_name, env.COMMANDLINE), fs)
      [] complete_instr = "complete-zsh" ->
            complete_handler("do_zsh_complete",
                init_do_zsh_complete(cli, prog_name, env.COMMANDLINE), fs)
      [] complete_instr = "install" -> install_handler(None, prog_name, complete_var, host, fs)
      [] complete_instr = "install-bash" -> install_handler(Some("bash"), prog_name, complete_var, host, fs)
      [] complete_instr = "install-fish" -> install_handler(Some("fish"), prog_name, complete_var, host, fs)
      [] complete_instr = "install-zsh" -> install_handler(Some("zsh"), prog_name, complete_var, host, fs)
      [] complete_instr = "install-powershell" ->
            install_handler(Some("powershell"), prog_name, complete_var, host, fs)
      [] OTHER -> Handled("", "", <<>>, fs)

\* how a call of _shellcomplete ends
Outcome(exit, h) ==
    [exit |-> exit, handler |-> h.handler, raised |-> h.raised, out |-> h.out, files |-> h.files]

\* "sys.exit()" after the chain, unless the handler's exception left it first
exit_after(h) == Outcome(IF h.raised # "" THEN "raise" ELSE "exit", h)

\* the chain falling off the end of the function
return_after(h) == Outcome(IF h.raised # "" THEN "raise" ELSE "return", h)

\* _shellcomplete falling off its end instead of calling sys.exit()
shellcomplete_noexit(cli, prog_name, env, host, fs) ==
    IF IsNone(env.complete_instr) \/ env.complete_instr = Some("")
    THEN Outcome("return", Handled("", "", <<>>, fs))
    ELSE return_after(shellcomplete_dispatch(cli, prog_name, complete_var_name(prog_name),
                                             env.complete_instr[1], env, host, fs))

(* _shellcomplete(cli, prog_name): env.complete_instr is the value of the  *)
(* control variable.  It ends by "return", by "exit" (sys.exit()) or by    *)
(* "raise" (the handler's exception leaves it).                            *)
shellcomplete(cli, prog_name, env, host, fs) ==
    IF IsNone(env.complete_instr) \/ env.complete_instr = Some("")
    THEN Outcome("return", Handled("", "", <<>>, fs))
    ELSE exit_after(shellcomplete_dispatch(cli, prog_name, complete_var_name(prog_name),
                                           env.complete_instr[1], env, host, fs))

-----------------------------------------------------------------------------
(* The inputs.                                                             *)

\* every concatenation of at most n members of pieces
Concats(pieces, n) == {Join(ps) : ps \in UNION {[1..k -> pieces] : k \in 0..n}}

LineChars == {"a", "-", " ", "'", "\"", "\\"}

Lines == Concats(LineChars, MaxLine)

TextChars == {"a", "-", " ", "'", "\"", "\\"}

Texts == Concats(TextChars, MaxText)

ArgWords == {"--name", "-n", "-v", "a", "run", "remote", "add", "bogus"}

ArgLists == UNION {[1..k -> ArgWords] : k \in 0..MaxArgs}

Incompletes == {"", "-", "--n", "b", "r", "B", "1"}

Predicates == {"init.startswith", "core.startswith", "icase"}

LineWords == {" ", "--name", "-", "b", "remote ", "add ", "\"", "bogus "}

\* the command lines of at most n words after the program's name
CommandLines(prog, n) == {Some(prog \o " " \o rest) : rest \in Concats(LineWords, n)}

Hosts == [parent : {None, Some("bash"), Some("fish"), Some("zsh"), Some("powershell"), Some("python")},
          ohmyzsh : BOOLEAN, powershell : BOOLEAN]

\* a host when the host is not looked at
AnyHost == [parent |-> Some("bash"), ohmyzsh |-> FALSE, powershell |-> TRUE]

NoEnv == [complete_instr |-> None, COMMANDLINE |-> None, COMP_WORDS |-> None, COMP_CWORD |-> None]

\* the shells handed to get_code and install of core.py
CoreShells ==
    {None}
    \cup {Some(ShellName(n)) : n \in SupportedShells \cup {"auto", "tcsh"}}
    \cup {Some(ShellMember(n)) : n \in SupportedShells}

\* the shells handed to get_code and install of __init__.py
InitShells == {None} \cup {Some(n) : n \in SupportedShells \cup {"auto", "tcsh"}}

\* the path argument of install
Paths == {None, Some("~/.bash_completion"), Some("~/completion")}

\* the append argument of install
Appends == {None, Some(TRUE), Some(FALSE)}

\* the files there are when the process starts
InitialFiles == [p \in {"~/.bash_completion"} |-> "# mine\n"]

-----------------------------------------------------------------------------
(* The state machine.  A process imports the package, configures it and   *)
(* then serves one request.  The candidate generator, the emitters and    *)
(* the entry point are reached through what init() installs in click       *)
(* (ParamType.complete, Choice.complete, get_command_short_help and        *)
(* _bashcomplete), so they run once init() has been called.                *)

Init ==
    /\ complete_options = FALSE
    /\ core_configuration = [complete_options |-> FALSE, match_incomplete |-> "core.startswith"]
    /\ pkg_startswith = "init.startswith"
    /\ initialized = FALSE
    /\ hooks = 0
    /\ call = [op |-> "import"]
    /\ ret = Ok(<<>>)
    /\ stdout = <<>>
    /\ files = InitialFiles
    /\ pc = "main"

Configuring == pc = "main" /\ call.op \in {"import", "configure", "init"}

\* init without the test of _initialized: every call installs and sets again
init_every_time(v) ==
    /\ Configuring
    /\ hooks < 2
    /\ hooks' = hooks + 1
    /\ complete_options' = v
    /\ initialized' = TRUE
    /\ call' = [op |-> "init", complete_options |-> v]
    /\ UNCHANGED <<core_configuration, pkg_startswith, ret, stdout, files, pc>>

\* init(complete_options)
init(v) ==
    /\ Configuring
    /\ IF ~initialized
       THEN /\ hooks' = hooks + 1
            /\ complete_options' = v
            /\ initialized' = TRUE
       ELSE UNCHANGED <<hooks, complete_options, initialized>>
    /\ call' = [op |-> "init", complete_options |-> v]
    /\ UNCHANGED <<core_configuration, pkg_startswith, ret, stdout, files, pc>>

\* the calling program sets core.py's completion_configuration.complete_options
set_complete_options(v) ==
    /\ Configuring
    /\ core_configuration' = [core_configuration EXCEPT !.complete_options = v]
    /\ call' = [op |-> "configure"]
    /\ UNCHANGED <<complete_options, pkg_startswith, initialized, hooks, ret, stdout, files, pc>>

\* the calling program sets core.py's completion_configuration.match_incomplete
set_match_incomplete(fn) ==
    /\ Configuring
    /\ core_configuration' = [core_configuration EXCEPT !.match_incomplete = fn]
    /\ call' = [op |-> "configure"]
    /\ UNCHANGED <<complete_options, pkg_startswith, initialized, hooks, ret, stdout, files, pc>>

\* the calling program overrides click_completion.startswith
set_startswith(fn) ==
    /\ Configuring
    /\ pkg_startswith' = fn
    /\ call' = [op |-> "configure"]
    /\ UNCHANGED <<complete_options, core_configuration, initialized, hooks, ret, stdout, files, pc>>

Unconfigured == <<complete_options, core_configuration, pkg_startswith, initialized, hooks>>

\* split_args(line)
CallSplitArgs(line) ==
    /\ pc = "main"
    /\ call' = [op |-> "split_args", line |-> line]
    /\ ret' = split_args(line)
    /\ pc' = "done"
    /\ UNCHANGED <<Unconfigured, stdout, files>>

\* single_quote(s)
CallSingleQuote(s) ==
    /\ pc = "main"
    /\ call' = [op |-> "single_quote", s |-> s]
    /\ ret' = Ok(single_quote(s))
    /\ pc' = "quoted"
    /\ UNCHANGED <<Unconfigured, stdout, files>>

\* the quoted text is read back: split_args(single_quote(s))
Unquote ==
    /\ pc = "quoted"
    /\ call' = [op |-> "unquote", s |-> call.s, line |-> ret.value]
    /\ ret' = split_args(ret.value)
    /\ pc' = "done"
    /\ UNCHANGED <<Unconfigured, stdout, files>>

\* get_choices(cli, prog_name, args, incomplete) of core.py
CallCoreGetChoices(cli, args, incomplete) ==
    /\ pc = "main"
    /\ initialized
    /\ call' = [op |-> "core.get_choices", cli |-> cli, args |-> args, incomplete |-> incomplete]
    /\ ret' = core_get_choices(cli, cli, args, incomplete)
    /\ pc' = "done"
    /\ UNCHANGED <<Unconfigured, stdout, files>>

\* get_choices(cli, prog_name, args, incomplete) of __init__.py
CallInitGetChoices(cli, args, incomplete) ==
    /\ pc = "main"
    /\ initialized
    /\ call' = [op |-> "init.get_choices", cli |-> cli, args |-> args, incomplete |-> incomplete]
    /\ ret' = init_get_choices(cli, cli, args, incomplete)
    /\ pc' = "done"
    /\ UNCHANGED <<Unconfigured, stdout, files>>

\* do_zsh_complete(cli, prog_name) of core.py, with COMMANDLINE in the environment
CallCoreZshComplete(cli, commandline) ==
    /\ pc = "main"
    /\ initialized
    /\ call' = [op |-> "core.do_zsh_complete", cli |-> cli, COMMANDLINE |-> commandline]
    /\ ret' = core_do_zsh_complete(cli, cli, commandline)
    /\ stdout' = stdout \o ret'.out
    /\ pc' = "done"
    /\ UNCHANGED <<Unconfigured, files>>

\* do_bash_complete(cli, prog_name) of core.py, with COMP_WORDS and COMP_CWORD in the environment
CallCoreBashComplete(cli, comp_words, comp_cword) ==
    /\ pc = "main"
    /\ initialized
    /\ call' = [op |-> "core.do_bash_complete", cli |-> cli, COMP_WORDS |-> comp_words,
                COMP_CWORD |-> comp_cword]
    /\ ret' = core_do_bash_complete(cli, cli, comp_words, comp_cword)
    /\ stdout' = stdout \o ret'.out
    /\ pc' = "done"
    /\ UNCHANGED <<Unconfigured, files>>

\* do_fish_complete(cli, prog_name) of core.py, with COMMANDLINE in the environment
CallCoreFishComplete(cli, commandline) ==
    /\ pc = "main"
    /\ initialized
    /\ call' = [op |-> "core.do_fish_complete", cli |-> cli, COMMANDLINE |-> commandline]
    /\ ret' = core_do_fish_complete(cli, cli, commandline)
    /\ stdout' = stdout \o ret'.out
    /\ pc' = "done"
    /\ UNCHANGED <<Unconfigured, files>>

\* do_powershell_complete(cli, prog_name) of core.py, with COMMANDLINE in the environment
CallCorePowershellComplete(cli, commandline) ==
    /\ pc = "main"
    /\ initialized
    /\ call' = [op |-> "core.do_powershell_complete", cli |-> cli, COMMANDLINE |-> commandline]
    /\ ret' = core_do_powershell_complete(cli, cli, commandline)
    /\ stdout' = stdout \o ret'.out
    /\ pc' = "done"
    /\ UNCHANGED <<Unconfigured, files>>

(* resolve_ctx(cli, prog_name, args), one turn of its loop at a time: while *)
(* pc = "resolving", ret.value holds the local variable ctx.               *)
CallResolveCtx(cli, args) ==
    /\ pc = "main"
    /\ call' = [op |-> "resolve_ctx", cli |-> cli, args |-> args]
    /\ ret' = Ok(Some(make_context(cli, args)))
    /\ pc' = "resolving"
    /\ UNCHANGED <<Unconfigured, stdout, files>>

\* "while ctx.args + ctx.protected_args and isinstance(ctx.command, MultiCommand)"
Descending(ctx) == (ctx.args \o ctx.protected_args) # <<>> /\ CommandTable[ctx.command].multi

\* the body of the loop for a = ctx.protected_args + ctx.args and cmd = get_command(ctx, a[0])
loop_body(a, cmd) == IF IsNone(cmd) THEN None ELSE Some(enter(a, cmd[1]))

\* one turn of the loop: the child's context, or "return None"
ResolveDescend ==
    /\ pc = "resolving"
    /\ Descending(ret.value[1])
    /\ ret' = Ok(loop_body(ret.value[1].protected_args \o ret.value[1].args,
                           get_command(ret.value[1].command,
                                       (ret.value[1].protected_args \o ret.value[1].args)[1])))
    /\ pc' = IF IsNone(ret'.value) THEN "done" ELSE "resolving"
    /\ UNCHANGED <<Unconfigured, call, stdout, files>>

\* the loop ends: "return ctx"
ResolveReturn ==
    /\ pc = "resolving"
    /\ ~Descending(ret.value[1])
    /\ pc' = "done"
    /\ UNCHANGED <<Unconfigured, call, ret, stdout, files>>

\* get_code(shell, prog_name, env_name) of core.py
CallCoreGetCode(shell, prog_name, host) ==
    /\ pc = "main"
    /\ call' = [op |-> "core.get_code", shell |-> shell, prog_name |-> prog_name, host |-> host]
    /\ ret' = core_get_code(shell, prog_name, complete_var_name(prog_name), host)
    /\ pc' = "done"
    /\ UNCHANGED <<Unconfigured, stdout, files>>

\* get_code(shell, prog_name, env_name) of __init__.py
CallInitGetCode(shell, prog_name, host) ==
    /\ pc = "main"
    /\ call' = [op |-> "init.get_code", shell |-> shell, prog_name |-> prog_name, host |-> host]
    /\ ret' = init_get_code(shell, prog_name, complete_var_name(prog_name), host)
    /\ pc' = "done"
    /\ UNCHANGED <<Unconfigured, stdout, files>>

\* install(shell, prog_name, env_name, path, append) of core.py
CallCoreInstall(shell, prog_name, path, append, host) ==
    /\ pc = "main"
    /\ call' = [op |-> "core.install", shell |-> shell, prog_name |-> prog_name,
                path |-> path, append |-> append, host |-> host]
    /\ ret' = core_install(shell, prog_name, complete_var_name(prog_name), path, append, host, files)
    /\ files' = ret'.files
    /\ pc' = "done"
    /\ UNCHANGED <<Unconfigured, stdout>>

\* install(shell, prog_name, env_name, path, append) of __init__.py
CallInitInstall(shell, prog_name, path, append, host) ==
    /\ pc = "main"
    /\ call' = [op |-> "init.install", shell |-> shell, prog_name |-> prog_name,
                path |-> path, append |-> append, host |-> host]
    /\ ret' = init_install(shell, prog_name, complete_var_name(prog_name), path, append, host, files)
    /\ files' = ret'.files
    /\ pc' = "done"
    /\ UNCHANGED <<Unconfigured, stdout>>

(* click's main calls _shellcomplete(cli, prog_name) before anything else: *)
(* the process goes on to the command ("returned"), ends ("exited") or     *)
(* dies of the exception ("failed").                                       *)
CallShellComplete(cli, env, host) ==
    /\ pc = "main"
    /\ initialized
    /\ call' = [op |-> "_shellcomplete", cli |-> cli, env |-> env, host |-> host]
    /\ ret' = shellcomplete(cli, cli, env, host, files)
    /\ stdout' = stdout \o ret'.out
    /\ files' = ret'.files
    /\ pc' = CASE ret'.exit = "return" -> "returned"
               [] ret'.exit = "exit" -> "exited"
               [] OTHER -> "failed"
    /\ UNCHANGED Unconfigured

\* the calling program's command runs
Invoke ==
    /\ pc = "returned"
    /\ pc' = "command"
    /\ UNCHANGED <<Unconfigured, call, ret, stdout, files>>

-----------------------------------------------------------------------------
(* The specifications.                                                     *)

\* the tokenizer and the quoting
NextLex ==
    \/ \E line \in Lines : CallSplitArgs(line)
    \/ \E s \in Texts : CallSingleQuote(s)
    \/ Unquote

SpecLex == Init /\ [][NextLex]_vars

\* the candidate generator of core.py
NextCore ==
    \/ \E v \in BOOLEAN : init(v)
    \/ \E v \in BOOLEAN : set_complete_options(v)
    \/ \E fn \in Predicates \ {"init.startswith"} : set_match_incomplete(fn)
    \/ \E fn \in Predicates : set_startswith(fn)
    \/ \E cli \in RootCommands, args \in ArgLists, incomplete \in Incompletes :
          CallCoreGetChoices(cli, args, incomplete)

SpecCore == Init /\ [][NextCore]_vars

\* the candidate generator of __init__.py
NextInit ==
    \/ \E v \in BOOLEAN : init(v)
    \/ \E fn \in Predicates : set_startswith(fn)
    \/ \E cli \in RootCommands, args \in ArgLists, incomplete \in Incompletes :
          CallInitGetChoices(cli, args, incomplete)

SpecInit == Init /\ [][NextInit]_vars

\* the emitters of core.py, called on their own
NextEmit ==
    \/ \E v \in BOOLEAN : init(v)
    \/ \E v \in BOOLEAN : set_complete_options(v)
    \/ \E cli \in RootCommands : \E commandline \in CommandLines(cli, MaxWords) \cup {None} :
          CallCoreZshComplete(cli, commandline)

SpecEmit == Init /\ [][NextEmit]_vars

\* the word indexes bash hands over in COMP_CWORD
WordIndexes == {Some(k) : k \in 1..(MaxMainWords + 1)}

\* the bash emitter of core.py, called on its own
NextBash ==
    \/ \E v \in BOOLEAN : init(v)
    \/ \E v \in BOOLEAN : set_complete_options(v)
    \/ \E cli \in RootCommands : \E comp_words \in CommandLines(cli, MaxMainWords) \cup {None} :
          \E comp_cword \in WordIndexes : CallCoreBashComplete(cli, comp_words, comp_cword)

SpecBash == Init /\ [][NextBash]_vars

\* the fish emitter of core.py, called on its own
NextFish ==
    \/ \E v \in BOOLEAN : init(v)
    \/ \E v \in BOOLEAN : set_complete_options(v)
    \/ \E cli \in RootCommands : \E commandline \in CommandLines(cli, MaxMainWords) \cup {None} :
          CallCoreFishComplete(cli, commandline)

SpecFish == Init /\ [][NextFish]_vars

\* pieces of command lines with quoted and escaped words
QuoteWords == {"-n ", "\"c (\" ", "\"c (", "c\\ (", "c"}

QuotedCommandLines(prog) == {Some(prog \o " " \o rest) : rest \in Concats(QuoteWords, MaxQuoteWords)}

\* the powershell emitter of core.py, called on its own
NextPowershell ==
    \/ \E v \in BOOLEAN : init(v)
    \/ \E cli \in RootCommands : \E commandline \in QuotedCommandLines(cli) \cup {None} :
          CallCorePowershellComplete(cli, commandline)

SpecPowershell == Init /\ [][NextPowershell]_vars

\* resolve_ctx called on its own; a loop that can take a turn takes it
NextResolve ==
    \/ \E cli \in RootCommands, args \in ArgLists : CallResolveCtx(cli, args)
    \/ ResolveDescend
    \/ ResolveReturn

SpecResolve ==
    Init /\ [][NextResolve]_vars /\ WF_vars(ResolveDescend) /\ WF_vars(ResolveReturn)

\* get_code and install, called by the program itself
NextInstall ==
    \/ \E shell \in CoreShells, prog_name \in RootCommands, host \in Hosts :
          CallCoreGetCode(shell, prog_name, host)
    \/ \E shell \in InitShells, prog_name \in RootCommands, host \in Hosts :
          CallInitGetCode(shell, prog_name, host)
    \/ \E shell \in CoreShells, prog_name \in RootCommands, path \in Paths, append \in Appends,
          host \in Hosts : CallCoreInstall(shell, prog_name, path, append, host)
    \/ \E shell \in InitShells, prog_name \in RootCommands, path \in Paths, append \in Appends,
          host \in Hosts : CallInitInstall(shell, prog_name, path, append, host)

SpecInstall == Init /\ [][NextInstall]_vars

Instructions ==
    {"source", "complete", "install", "bogus"}
    \cup {kind \o "-" \o shell : kind \in {"source", "complete", "install"}, shell \in SupportedShells}

\* the environments and hosts a process running cli may start in
Starts(cli) ==
    {<<[NoEnv EXCEPT !.complete_instr = i], AnyHost>> : i \in {None, Some(""), Some("bogus")}}
    \cup {<<[NoEnv EXCEPT !.complete_instr = Some(i)], host>> :
             i \in {x \in Instructions : StrStartsWith(x, "source") \/ StrStartsWith(x, "install")},
             host \in Hosts}
    \cup {<<[NoEnv EXCEPT !.complete_instr = Some(i), !.COMMANDLINE = l], AnyHost>> :
             i \in {"complete-fish", "complete-zsh", "complete-powershell"},
             l \in CommandLines(cli, MaxMainWords) \cup {None}}
    \cup {<<[NoEnv EXCEPT !.complete_instr = Some(i), !.COMP_WORDS = l, !.COMP_CWORD = n], AnyHost>> :
             i \in {"complete", "complete-bash"},
             l \in CommandLines(cli, MaxMainWords) \cup {None},
             n \in {Some(k) : k \in 0..(MaxMainWords + 1)}}

\* a process from its start to its end
NextMain ==
    \/ \E v \in BOOLEAN : init(v)
    \/ \E cli \in RootCommands : \E s \in Starts(cli) : CallShellComplete(cli, s[1], s[2])
    \/ Invoke

SpecMain == Init /\ [][NextMain]_vars

Next == NextLex \/ NextCore \/ NextInit \/ NextEmit \/ NextBash \/ NextFish \/ NextPowershell \/ NextResolve \/ NextMain \/ NextInstall

Spec == Init /\ [][Next]_vars

-----------------------------------------------------------------------------
(* The properties.  call is the operation the process ran and ret what it  *)
(* returned.                                                               *)

\* the context resolve_ctx gives for the call's cli and args, or None
Resolved == resolve_ctx(call.cli, call.cli, call.args)

\* the command the call's args lead to
Active == Resolved[1].command

\* the options of the active command
ActiveOptions == SeqToSet(SelectParams(Active, "Option"))

CoreCall == call.op = "core.get_choices"

AnyGetChoicesCall == call.op \in {"core.get_choices", "init.get_choices"}

\* the call resolves and no parameter is picked to complete the value of
Enumerates == ~IsNone(Resolved) /\ IsNone(find_optctx(Resolved[1], call.args, call.incomplete))

\* the texts of the candidates returned
Yielded == [i \in 1..Len(ret.value) |-> ret.value[i][1]]

\* every name a command can offer, in the order it declares them
Discovery(cmd) ==
    Flatten([i \in 1..Len(get_params(cmd)) |->
                IF get_params(cmd)[i].kind = "Option"
                THEN get_params(cmd)[i].opts \o get_params(cmd)[i].secondary_opts
                ELSE <<>>])
    \o list_commands(cmd)

Pos(seq, x) == CHOOSE i \in 1..Len(seq) : seq[i] = x

(* C1: for every line, split_args(line) returns a sequence of tokens and   *)
(* raises nothing, also when the line has an unterminated quote or ends    *)
(* with a backslash.                                                       *)
C1_SplitArgsNeverRaises ==
    call.op = "split_args" =>
        /\ ret.raised = ""
        /\ DOMAIN ret.value = 1..Len(ret.value)

\* split_args was called on a line the lexer fails on, and returned the open token
C1_Witness ==
    /\ call.op = "split_args"
    /\ shlex_iter(call.line).error = "No closing quotation"
    /\ ret.raised = ""
    /\ ret.value # <<>>

(* C2: when resolve_ctx fails (a leftover token names no child of the      *)
(* active group), get_choices of core.py yields the empty sequence and     *)
(* raises nothing, whatever the incomplete word.                           *)
C2_UnresolvedYieldsNothing ==
    (CoreCall /\ IsNone(Resolved)) => ret = Ok(<<>>)

\* get_choices was called with a token that names no subcommand of the group
C2_Witness ==
    /\ CoreCall
    /\ call.cli = "main"
    /\ call.args # <<>>
    /\ call.incomplete = "-"
    /\ IsNone(Resolved)
    /\ ret = Ok(<<>>)

(* C3: with args = [] and incomplete = "b" on the command "tool" (a flag   *)
(* --verbose/-v, an option --name, an unset choice argument {a, b, c}),    *)
(* get_choices yields exactly ("b", None); in general an unset positional  *)
(* argument is completed whenever incomplete does not start with "-",     *)
(* also when args is empty.                                                *)
C3_UnsetArgumentWithoutArgs ==
    (CoreCall /\ call.cli = "tool" /\ call.args = <<>> /\ ~StrStartsWith(call.incomplete, "-")) =>
        /\ ret = Ok(as_tuples(type_complete(Choice(<<"a", "b", "c">>), call.incomplete)))
        /\ call.incomplete = "b" => ret = Ok(<<<<"b", None>>>>)

(* C4: in the enumeration branch of get_choices, of core.py and of         *)
(* __init__.py, no primary or secondary spelling of a hidden option is     *)
(* among the candidates, whatever the configuration.                       *)
C4_HiddenNeverOffered ==
    (AnyGetChoicesCall /\ Enumerates) =>
        \A i \in 1..Len(ret.value) : \A p \in ActiveOptions :
            p.hidden => ret.value[i][1] \notin Spellings(p)

(* C5: a candidate get_choices yields for a secondary spelling of an       *)
(* option has help None, even when the option has a help text; a candidate *)
(* for a primary spelling has the option's help.                           *)
C5_SecondaryWithoutHelp ==
    (CoreCall /\ Enumerates) =>
        \A i \in 1..Len(ret.value) : \A p \in ActiveOptions :
            /\ ret.value[i][1] \in SeqToSet(p.secondary_opts) => ret.value[i][2] = None
            /\ ret.value[i][1] \in SeqToSet(p.opts) => ret.value[i][2] = p.help

\* a flag with a help text was offered under both its spellings
C5_Witness ==
    /\ CoreCall
    /\ Enumerates
    /\ \E i, j \in 1..Len(ret.value) :
          /\ ret.value[i] = <<"--verbose", Some("Be verbose")>>
          /\ ret.value[j] = <<"-v", None>>

(* C6: when args is not empty and args[-1] is a primary or secondary       *)
(* spelling of a value-taking option of the active command, get_choices    *)
(* yields exactly what the option's type completes, a bare result wrapped  *)
(* as (value, None): no option spelling and no subcommand name is added,   *)
(* and nothing is yielded when the type completes nothing.                 *)
C6_OptionValueOnly ==
    (CoreCall /\ ~IsNone(Resolved) /\ call.args # <<>>) =>
        \A p \in ActiveOptions :
            (~p.is_flag /\ call.args[Len(call.args)] \in Spellings(p)) =>
                /\ ret = Ok(as_tuples(type_complete(p.type, call.incomplete)))
                /\ \A i \in 1..Len(ret.value) :
                      ret.value[i][1] \notin SeqToSet(Discovery(Active))

\* the value of --name was completed from a type that returns bare strings
C6_Witness ==
    /\ CoreCall
    /\ call.cli = "main"
    /\ call.args = <<"--name">>
    /\ call.incomplete = ""
    /\ ret = Ok(<<<<"al", None>>, <<"bo", None>>, <<"c (d)", None>>>>)

(* C7: in the enumeration branch the candidates come in discovery order,   *)
(* neither sorted nor deduplicated: the options in declaration order, each *)
(* with its primary then its secondary spellings, before the subcommands   *)
(* in list_commands order; for args = [] and incomplete = "-" on "tool"   *)
(* the candidates begin --verbose, -v, --name.                             *)
C7_DiscoveryOrder ==
    (CoreCall /\ Enumerates) =>
        /\ \A i \in 1..Len(Yielded) : Yielded[i] \in SeqToSet(Discovery(Active))
        /\ \A i, j \in 1..Len(Yielded) :
              i < j => Pos(Discovery(Active), Yielded[i]) < Pos(Discovery(Active), Yielded[j])
        /\ (call.cli = "tool" /\ call.args = <<>> /\ call.incomplete = "-") =>
              SubSeq(Yielded, 1, 3) = <<"--verbose", "-v", "--name">>

\* options and subcommands were offered together
C7_Witness ==
    /\ CoreCall
    /\ Enumerates
    /\ call.cli = "main"
    /\ \E i, j \in 1..Len(Yielded) : Yielded[i] = "--region" /\ Yielded[j] = "remote"

ZshCall == call.op = "core.do_zsh_complete" /\ ret.raised = ""

(* C8: do_zsh_complete prints exactly "_files" when get_choices yields no  *)
(* candidate, and otherwise one "_arguments" expression that holds every   *)
(* candidate, and never "_files".                                          *)
C8_ZshFilesOrArguments ==
    ZshCall =>
        /\ ret.choices = core_get_choices(call.cli, call.cli, ret.args, ret.incomplete).value
        /\ stdout = ret.out
        /\ Len(ret.out) = 1
        /\ ret.choices = <<>> => ret.out[1] = "_files\n"
        /\ ret.choices # <<>> =>
              /\ StrStartsWith(ret.out[1], "_arguments '*: :((")
              /\ StrEndsWith(ret.out[1], "))'\n")
              /\ ~Contains(ret.out[1], "_files")
              /\ \A i \in 1..Len(ret.choices) :
                    Contains(ret.out[1], "\"" \o core_zsh_escape(ret.choices[i][1]) \o "\"")

\* do_zsh_complete ran on a command line nothing completes
C8_Witness ==
    /\ ZshCall
    /\ ret.choices = <<>>
    /\ stdout = <<"_files\n">>

(* C9: tokenizing single_quote(s) yields exactly the one token s, for      *)
(* every s, with or without single quotes in it.                           *)
C9_SingleQuoteRoundTrip ==
    call.op = "unquote" => ret = Ok(<<call.s>>)

\* a text with a single quote in it was quoted and read back
C9_Witness ==
    /\ call.op = "unquote"
    /\ Contains(call.s, "'")
    /\ call.line # call.s
    /\ ret = Ok(<<call.s>>)

\* the modes _shellcomplete recognizes
RecognizedModes ==
    {"source", "complete", "install"}
    \cup {kind \o "-" \o shell : kind \in {"source", "complete", "install"},
                                shell \in {"bash", "fish", "zsh", "powershell"}}

\* the function a recognized mode hands the request to
HandlerOf(mode) ==
    CASE StrStartsWith(mode, "source") -> "get_code"
      [] StrStartsWith(mode, "install") -> "install"
      [] mode \in {"complete", "complete-bash"} -> "do_bash_complete"
      [] mode = "complete-fish" -> "do_fish_complete"
      [] mode = "complete-zsh" -> "do_zsh_complete"
      [] OTHER -> "do_powershell_complete"

ShellCompleteCall == call.op = "_shellcomplete"

(* C10: when the control variable holds a recognized mode, _shellcomplete  *)
(* runs that mode's handler and the process ends there: the command of the *)
(* calling program never runs.  When the variable is unset or empty,       *)
(* _shellcomplete returns, having printed nothing and ended nothing.       *)
C10_RecognizedModeEndsProcess ==
    ShellCompleteCall =>
        /\ (~IsNone(call.env.complete_instr) /\ call.env.complete_instr[1] \in RecognizedModes) =>
              /\ ret.handler = HandlerOf(call.env.complete_instr[1])
              /\ ret.exit \in {"exit", "raise"}
              /\ ret.raised = "" => ret.exit = "exit"
              /\ pc \in {"exited", "failed"}
        /\ (IsNone(call.env.complete_instr) \/ call.env.complete_instr = Some("")) =>
              /\ ret.exit = "return"
              /\ ret.handler = ""
              /\ stdout = <<>>
              /\ files = InitialFiles
              /\ pc \in {"returned", "command"}
        /\ pc = "command" => (IsNone(call.env.complete_instr) \/ call.env.complete_instr = Some(""))

\* a completion request was served and the process ended
C10_Witness ==
    /\ ShellCompleteCall
    /\ call.env.complete_instr = Some("complete-zsh")
    /\ ret.handler = "do_zsh_complete"
    /\ stdout # <<>>
    /\ pc = "exited"

\* the call hands get_code or install a name that is none of the four shells
UnsupportedShellCall ==
    \/ call.op \in {"core.get_code", "core.install"} /\ call.shell = Some(ShellName("tcsh"))
    \/ call.op \in {"init.get_code", "init.install"} /\ call.shell = Some("tcsh")

(* C11: a shell name that is none of bash, fish, zsh and powershell,       *)
(* handed to install or to get_code, ends in click.ClickException and in   *)
(* no other exception, and no file is written.                             *)
C11_UnsupportedShellIsClickException ==
    UnsupportedShellCall => (ret.raised = "ClickException" /\ files = InitialFiles)

\* a step that is a call of init: what it may change
InitCallStep ==
    call'.op = "init" =>
        IF initialized
        THEN UNCHANGED <<complete_options, hooks, initialized>>
        ELSE /\ complete_options' = call'.complete_options
             /\ hooks' = hooks + 1
             /\ initialized'

(* C12: the policy is set once.  The first call of init sets               *)
(* complete_options to its argument and installs the hooks; every later    *)
(* call, whatever its argument, leaves complete_options and the hooks as   *)
(* they are, so the hooks are installed exactly once.                      *)
C12_InitOnce ==
    /\ [](hooks <= 1 /\ (initialized <=> hooks = 1))
    /\ [][InitCallStep]_vars

\* init was called again with another value, and the policy kept the first one
C12_Witness ==
    /\ call.op = "init"
    /\ initialized
    /\ hooks = 1
    /\ call.complete_options # complete_options

\* the parameter whose value the call completes, or None
Target == find_optctx(Resolved[1], call.args, call.incomplete)

(* C13: the configured match predicate decides every filtering step: the   *)
(* values a Choice type completes are those its predicate accepts, as are  *)
(* the option spellings and subcommand names of the enumeration.           *)
C13_OnePredicateEverywhere ==
    (CoreCall /\ ~IsNone(Resolved)) =>
        /\ (~IsNone(Target) /\ Target[1].type.kind = "Choice") =>
              Yielded = SelectSeq(Target[1].type.choices, LAMBDA c : match(c, call.incomplete))
        /\ IsNone(Target) => \A i \in 1..Len(Yielded) : match(Yielded[i], call.incomplete)

InstallCall == call.op \in {"core.install", "init.install"}

\* the shell an install call is for, given or detected; "" when there is none
RequestedShell ==
    IF IsNone(call.shell)
    THEN (IF IsNone(call.host.parent) THEN "" ELSE call.host.parent[1])
    ELSE IF call.op = "core.install" THEN call.shell[1].name ELSE call.shell[1]

\* the shell an install call returned, by name
ReturnedShell == IF call.op = "core.install" THEN ret.value[1].name ELSE ret.value[1]

\* the standard completion files of a shell
StandardPaths(shell, prog_name) ==
    CASE shell = "fish" -> {"~/.config/fish/completions/" \o prog_name \o ".fish"}
      [] shell = "bash" -> {"~/.bash_completion"}
      [] shell = "zsh" -> {"~/.zshrc", "~/.oh-my-zsh/completions/_" \o prog_name}
      [] OTHER -> {"~/profile.ps1"}

\* the mode the arguments of an install call ask for
RequestedMode ==
    IF ~IsNone(call.append) THEN (IF call.append[1] THEN "a" ELSE "w")
    ELSE IF ~IsNone(call.path) THEN "a"
    ELSE IF RequestedShell = "fish" THEN "w" ELSE "a"

(* C14: for each of the four shells, given by name, as a member of Shell   *)
(* or detected (shell None), install raises no unsupported-shell error;    *)
(* the path is the caller's if given, else the shell's standard file; the  *)
(* mode is the explicit append if given, else append when a path is        *)
(* given, else the shell's default (fish: write; the others: append); and  *)
(* it returns the shell and the path.                                      *)
C14_InstallTarget ==
    (InstallCall /\ RequestedShell \in SupportedShells) =>
        /\ ret.raised # "ClickException"
        /\ ret.raised = "" =>
              /\ ReturnedShell = RequestedShell
              /\ ret.mode = RequestedMode
              /\ ~IsNone(call.path) => ret.value[2] = call.path[1]
              /\ IsNone(call.path) => ret.value[2] \in StandardPaths(RequestedShell, call.prog_name)

\* the policy of the call lets options be offered
OptionsWanted ==
    \/ core_configuration.complete_options
    \/ (call.incomplete # "" /\ ~IsAlnum(Ch(call.incomplete, 1)))

\* the spellings of the options of the active command that are not hidden
VisibleSpellings == UNION {Spellings(p) : p \in {q \in ActiveOptions : ~q.hidden}}

(* C15: in the enumeration branch option spellings are candidates if and   *)
(* only if complete_options is on, or incomplete is not empty and its      *)
(* first character is not alphanumeric: when it is so every matching       *)
(* spelling is yielded, and otherwise no option spelling is yielded, only  *)
(* matching subcommand names.                                              *)
C15_OptionsOnlyWhenWanted ==
    (CoreCall /\ Enumerates) =>
        /\ OptionsWanted =>
              \A o \in VisibleSpellings : match(o, call.incomplete) => o \in SeqToSet(Yielded)
        /\ ~OptionsWanted =>
              \A i \in 1..Len(Yielded) :
                  /\ Yielded[i] \notin UNION {Spellings(p) : p \in ActiveOptions}
                  /\ Yielded[i] \in SeqToSet(list_commands(Active))
                  /\ match(Yielded[i], call.incomplete)

\* with the policy off and a letter typed, only subcommands were offered
C15_Witness ==
    /\ CoreCall
    /\ Enumerates
    /\ ~core_configuration.complete_options
    /\ call.cli = "main"
    /\ call.incomplete = "r"
    /\ Yielded = <<"remote", "run">>

\* the call has args and the last of them spells no option that takes a value
LastArgIsNoValueOption ==
    /\ call.args # <<>>
    /\ ~IsNone(Resolved)
    /\ \A p \in ActiveOptions : p.is_flag \/ call.args[Len(call.args)] \notin Spellings(p)

\* the arguments of the active command, in declaration order
ActiveArguments == SelectParams(Active, "Argument")

\* the positions of the arguments whose value is None or () or whose nargs is -1
OpenArguments == {i \in 1..Len(ActiveArguments) : IsOpen(Resolved[1], ActiveArguments, i)}

\* the first of them
FirstOpenArgument == ActiveArguments[CHOOSE i \in OpenArguments : \A j \in OpenArguments : i <= j]

(* C16: when the last word of args names no option that takes a value, an  *)
(* incomplete starting with '-' makes no positional argument the target of *)
(* value completion (the names of the command are enumerated), and         *)
(* otherwise the target is the first argument in declaration order whose   *)
(* value is None or the empty tuple or whose nargs is -1: the candidates   *)
(* are the values of that argument's type, never those of a later one.     *)
C16_FirstOpenArgument ==
    (CoreCall /\ LastArgIsNoValueOption) =>
        IF StrStartsWith(call.incomplete, "-") \/ OpenArguments = {}
        THEN ret.value = core_enumerate(Resolved[1], call.incomplete)
        ELSE ret.value = value_choices(FirstOpenArgument, call.incomplete)

\* two arguments are open and the values of the first one were offered
C16_Witness ==
    /\ CoreCall
    /\ LastArgIsNoValueOption
    /\ call.args = <<"remote", "add">>
    /\ call.incomplete = ""
    /\ Cardinality(OpenArguments) = 2
    /\ Yielded = <<"a", "b", "c">>

BashCall == call.op = "core.do_bash_complete" /\ ret.raised = ""

\* shlex.split accepts the COMP_WORDS of the call
StrictlyTokenized == shlex_split(call.COMP_WORDS[1]).raised = ""

\* the texts of the candidates the emitter got from get_choices
BashTexts == [i \in 1..Len(ret.choices) |-> ret.choices[i][1]]

\* text with a backslash before whitespace, backslash, quotes and parentheses
BashEscaped(text) == backslash_escape(text, {" ", "\t", "\n", "\r", "\\", "\"", "'", "(", ")"})

(* C17: do_bash_complete prints the texts of the candidates only, joined by *)
(* tabs and without a newline at the end; every text is backslash-escaped   *)
(* (whitespace, backslash, quotes, parentheses) when shlex.split accepts    *)
(* COMP_WORDS, and printed as it is exactly when shlex.split failed and the *)
(* lenient tokenizer was used.                                              *)
C17_BashTabJoined ==
    BashCall =>
        /\ ret.choices = core_get_choices(call.cli, call.cli, ret.args, ret.incomplete).value
        /\ stdout = ret.out
        /\ Len(ret.out) = 1
        /\ StrictlyTokenized =>
              ret.out[1] = StrJoin("\t", [i \in 1..Len(BashTexts) |-> BashEscaped(BashTexts[i])])
        /\ ~StrictlyTokenized => ret.out[1] = StrJoin("\t", BashTexts)

\* a value with a space and parentheses was printed escaped after a strict split
C17_Witness ==
    /\ BashCall
    /\ StrictlyTokenized
    /\ stdout = <<"al\tbo\tc\\ \\(d\\)">>

\* the same value was printed as it is after an unclosed quote
C17_WitnessQuoted ==
    /\ BashCall
    /\ ~StrictlyTokenized
    /\ stdout = <<"al\tbo\tc (d)">>

FishCall == call.op = "core.do_fish_complete" /\ ret.raised = ""

Whitespace == {" ", "\t", "\n", "\r"}

\* s with every run of whitespace made one space
RECURSIVE Collapsed(_)
Collapsed(s) ==
    IF s = "" THEN ""
    ELSE IF Ch(s, 1) \in Whitespace
    THEN IF Len(s) > 1 /\ Ch(s, 2) \in Whitespace THEN Collapsed(SubSeq(s, 2, Len(s)))
         ELSE " " \o Collapsed(SubSeq(s, 2, Len(s)))
    ELSE Ch(s, 1) \o Collapsed(SubSeq(s, 2, Len(s)))

\* h is help with every whitespace character made a space, one for one
Blanked(help, h) ==
    /\ Len(h) = Len(help)
    /\ \A k \in 1..Len(help) :
          Ch(h, k) = IF Ch(help, k) \in Whitespace THEN " " ELSE Ch(help, k)

\* line is "text<TAB>h<NEWLINE>" for an h that is help blanked
IsBlankedLine(line, text, help) ==
    /\ Len(line) = Len(text) + Len(help) + 2
    /\ SubSeq(line, 1, Len(text) + 1) = text \o "\t"
    /\ Blanked(help, SubSeq(line, Len(text) + 2, Len(line) - 1))
    /\ Ch(line, Len(line)) = "\n"

(* C18, as stated: do_fish_complete prints one line for each candidate,    *)
(* "text<TAB>help" with every run of whitespace in help collapsed to one   *)
(* space when help is present, and "text" alone when help is absent or     *)
(* empty.                                                                  *)
C18_FishHelpCollapsed ==
    FishCall =>
        /\ stdout = ret.out
        /\ Len(ret.out) = Len(ret.choices)
        /\ \A i \in 1..Len(ret.choices) :
              ret.out[i] = IF Truthy(ret.choices[i][2])
                           THEN ret.choices[i][1] \o "\t" \o Collapsed(ret.choices[i][2][1]) \o "\n"
                           ELSE ret.choices[i][1] \o "\n"

(* C18, amended: do_fish_complete prints one line for each candidate,      *)
(* "text<TAB>help" with every whitespace character of help replaced by one *)
(* space, so that the help never breaks the line and a run of whitespace   *)
(* keeps its length, and "text" alone when help is absent or empty.        *)
C18_FishHelpBlanked ==
    FishCall =>
        /\ ret.choices = core_get_choices(call.cli, call.cli, ret.args, ret.incomplete).value
        /\ stdout = ret.out
        /\ Len(ret.out) = Len(ret.choices)
        /\ \A i \in 1..Len(ret.choices) :
              IF Truthy(ret.choices[i][2])
              THEN IsBlankedLine(ret.out[i], ret.choices[i][1], ret.choices[i][2][1])
              ELSE ret.out[i] = ret.choices[i][1] \o "\n"

\* a help of two lines was printed on one line, with two spaces
C18_Witness ==
    /\ FishCall
    /\ \E i \in 1..Len(ret.choices) :
          /\ ret.choices[i] = <<"--name", Some("Your\n name")>>
          /\ stdout[i] = "--name\tYour  name\n"
    /\ \E i \in 1..Len(ret.choices) : ~Truthy(ret.choices[i][2]) /\ stdout[i] = "-v\n"

PowershellCall == call.op = "core.do_powershell_complete" /\ ret.raised = ""

(* Where the words of a command line start, read as a shell reads it: a   *)
(* word runs up to whitespace outside quotes, and a backslash outside      *)
(* single quotes takes the next character with it.  mode is "out" between  *)
(* words, "word" in a bare stretch, "dq" and "sq" inside quotes; n counts  *)
(* the words started and start is where the last one began.                *)
RECURSIVE ScanWords(_, _, _, _, _)
ScanWords(line, i, mode, n, start) ==
    IF i > Len(line) THEN [mode |-> mode, n |-> n, start |-> start]
    ELSE LET c == Ch(line, i)
             begins == mode = "out" /\ c \notin {" ", "\t", "\n", "\r"}
             n2 == IF begins THEN n + 1 ELSE n
             start2 == IF begins THEN i ELSE start
         IN CASE mode = "sq" ->
                   ScanWords(line, i + 1, IF c = "'" THEN "word" ELSE "sq", n, start)
              [] mode = "dq" /\ c = "\\" -> ScanWords(line, i + 2, "dq", n, start)
              [] mode = "dq" ->
                   ScanWords(line, i + 1, IF c = "\"" THEN "word" ELSE "dq", n, start)
              [] c \in {" ", "\t", "\n", "\r"} -> ScanWords(line, i + 1, "out", n, start)
              [] c = "\\" -> ScanWords(line, i + 2, "word", n2, start2)
              [] c = "\"" -> ScanWords(line, i + 1, "dq", n2, start2)
              [] c = "'" -> ScanWords(line, i + 1, "sq", n2, start2)
              [] OTHER -> ScanWords(line, i + 1, "word", n2, start2)

\* the line ends inside a word after the program's name, and that word starts with a double quote
QuotedWord(line, scan) ==
    /\ scan.mode # "out"
    /\ scan.n > 1
    /\ Ch(line, scan.start) = "\""

TokenInDoubleQuotes(line) == QuotedWord(line, ScanWords(line, 1, "out", 0, 0))

(* C19: do_powershell_complete quotes every candidate with double_quote if *)
(* and only if the token being completed is enclosed in double quotes on   *)
(* the raw COMMANDLINE, and with single_quote otherwise, also when the     *)
(* line ends with a space or has no argument: what decides is the start of *)
(* the token being completed, not another occurrence of its text.          *)
C19_PowershellQuoteOfToken ==
    PowershellCall =>
        /\ Len(ret.out) = Len(ret.choices)
        /\ \A i \in 1..Len(ret.choices) :
              ret.out[i] = IF TokenInDoubleQuotes(call.COMMANDLINE[1])
                           THEN double_quote(ret.choices[i][1]) \o "\n"
                           ELSE single_quote(ret.choices[i][1]) \o "\n"

\* the leftover tokens of a context: unconsumed and protected
Leftover(ctx) == Len(ctx.args) + Len(ctx.protected_args)

\* a turn of the loop that goes on leaves fewer leftover tokens
FewerLeftover ==
    (pc = "resolving" /\ pc' = "resolving") => Leftover(ret'.value[1]) < Leftover(ret.value[1])

\* resolve_ctx has returned
ResolveDone == call.op = "resolve_ctx" /\ pc = "done"

\* not found, or a context whose command is no container or has no leftover token
ResolveResult ==
    ResolveDone =>
        /\ ret.value = resolve_ctx(call.cli, call.cli, call.args)
        /\ \/ IsNone(ret.value)
           \/ ~CommandTable[ret.value[1].command].multi
           \/ Leftover(ret.value[1]) = 0

(* C20: resolve_ctx terminates: every descent consumes at least the first  *)
(* leftover token, so the number of leftover tokens goes down at each turn *)
(* of the loop, and the call ends either with not-found or with a context  *)
(* whose command is not a container or has no leftover token.              *)
C20_ResolveTerminates ==
    /\ [][FewerLeftover]_vars
    /\ []ResolveResult
    /\ (pc = "resolving") ~> ResolveDone

\* resolve_ctx descended twice and returned the context of "add"
C20_Witness ==
    /\ ResolveDone
    /\ call.args = <<"remote", "add">>
    /\ ~IsNone(ret.value)
    /\ ret.value[1].command = "add"

=============================================================================
